---- MODULE Spec2Model ----
(***************************************************************************)
(* Model of the AIS scripts:                                               *)
(*   final assignment/capture_jetson_images_stream.py  (prog = "stream")   *)
(*   final assignment/capture_jetson_images.py         (prog = "capture")  *)
(*   final assignment/jetson_deployment.py             (prog = "deploy")   *)
(*   assignment 1/unzip_and_clean.py                   (prog = "unzip")    *)
(* Each script is a process of its own; prog says which one was launched.  *)
(***************************************************************************)
EXTENDS Integers, Sequences, FiniteSets, TLC

\* ---------------------------------------------------------------- bounds
\* streaming generators (one per connected viewer)
NGen == 1
\* frames the camera delivers before every further read fails
MaxFrames == 2
\* pixels of a frame
NPix == 2
\* key presses of the operator
MaxKeys == 1
\* images already present in a class directory at startup
MaxOld == 1

\* ------------------------------------------------------------- constants
CLASSES == <<"middle", "peace", "woensel">>
ClassSet == {CLASSES[i] : i \in 1..Len(CLASSES)}

\* character codes of the keys the operator may press: '1' '2' '3' 'q' 'Q' 'x'
Keys == {49, 50, 51, 113, 81, 120}

\* holders of frame_lock: nobody, the capture loop, or generator g \in Gens
Free == 0
Main == -1
Gens == 1..NGen

\* a reference to no object (None); a frame that is None
NoRef == 0
NoFrame == << >>

VARIABLES
  prog,           \* which script runs
  mpc,            \* position of main()
  cap,            \* the camera handle: "closed", "open", "failed", "released"
  ret,            \* main's local ret: "None" (unassigned), "True", "False"
  frame,          \* main's local frame (pixels), NoFrame when None
  display_frame,  \* main's local display_frame: a reference into heap
  counters,       \* main's dict counters
  files,          \* OUTPUT_DIR/<class>/ : the set of file names per class
  stdin,          \* keys pressed and not yet read
  clock,          \* datetime.now(), in ticks
  nframes,        \* frames the camera has delivered
  flask_thread,   \* TRUE once the Flask thread serves requests
  frame_lock,     \* holder of frame_lock
  current_frame,  \* the module-level slot: a reference into heap, or NoRef
  heap,           \* the pixel arrays, by reference
  genpc,          \* position of each generate_frames() generator
  gidx,           \* next pixel a generator's copy() will copy
  gframe,         \* each generator's local frame (pixels)
  gref,           \* the array a generator's copy() reads
  label,          \* jetson_deployment: the label last drawn
  fs,             \* unzip_and_clean: the tree under target_directory, by path
  wstack,         \* os.walk: the directories still to visit
  wtop,           \* os.walk: root, the directory being visited
  wdirs,          \* os.walk: dirs of the directory being visited
  wfiles,         \* os.walk: files of the directory being visited, not yet looped over
  listed,         \* history: the .zip files the walk has listed
  attempted,      \* history: the .zip files the loop body has processed
  last,           \* history: the file processed last, and how that ended
  npress,         \* keys pressed so far
  published,      \* history: the pixel contents of every frame published
  lastpub,        \* history: the pixel contents of the last frame published
  saves,          \* history: save requests per class, by the key pressed
  files0          \* history: the class directories as they were at startup

vars == <<prog, mpc, cap, ret, frame, display_frame, counters, files, stdin,
          clock, nframes, flask_thread, frame_lock, current_frame, heap,
          genpc, gidx, gframe, gref, label, npress, published, lastpub, saves,
          files0, fs, wstack, wtop, wdirs, wfiles, listed, attempted, last>>

camVars  == <<cap, ret, frame, nframes>>
keyVars  == <<stdin, npress>>
saveVars == <<counters, files, saves>>
slotVars == <<frame_lock, current_frame, published, lastpub>>
genVars  == <<genpc, gidx, gframe, gref, label>>
zipVars  == <<fs, wstack, wtop, wdirs, wfiles, listed, attempted, last>>
camToolVars == <<camVars, display_frame, saveVars, keyVars, clock, flask_thread,
                 slotVars, heap, genVars, files0>>

\* ----------------------------------------------------------------- frames
\* the frame number k the camera delivers: every pixel carries k
RawFrame(k) == [i \in 1..NPix |-> k]

\* cv2.putText draws in place: the pixels under the text change
PutText(f, i) == IF i \in DOMAIN f /\ f[i] > 0 THEN [f EXCEPT ![i] = -f[i]] ELSE f

\* str.lower() of one character
Lower(c) == IF c \in 65..90 THEN c + 32 ELSE c

\* img_<timestamp>.jpg : the name is the timestamp
FileName(t) == t

\* ------------------------------------------------ order of the loop body
\* variant: the frame is published before the overlay is drawn on it
StreamOrderPublishFirst ==
  <<"read", "check", "copy", "acquire", "assign", "overlay", "key", "sleep">>

\* capture_jetson_images_stream.py, the statements of main's while loop in order
StreamOrder ==
  <<"read", "check", "copy", "overlay", "acquire", "assign", "key", "sleep">>

Pos(order, p) == CHOOSE i \in 1..Len(order) : order[i] = p

After(p) == StreamOrder[(Pos(StreamOrder, p) % Len(StreamOrder)) + 1]

InLoop == mpc \in {StreamOrder[i] : i \in 1..Len(StreamOrder)}

\* ------------------------------------------------------- stream: startup
StreamMkdirs ==
  /\ prog = "stream" /\ mpc = "mkdirs"
  /\ mpc' = "open"
  /\ UNCHANGED <<prog, zipVars, camVars, display_frame, saveVars, keyVars, clock,
                 flask_thread, slotVars, heap, genVars, files0>>

StreamOpen ==
  /\ prog = "stream" /\ mpc = "open"
  /\ \E ok \in BOOLEAN :
       /\ cap' = IF ok THEN "open" ELSE "failed"
       /\ mpc' = IF ok THEN "listdir" ELSE "exit"
  /\ UNCHANGED <<prog, zipVars, ret, frame, nframes, display_frame, saveVars, keyVars,
                 clock, flask_thread, slotVars, heap, genVars, files0>>

StreamListdir ==
  /\ prog = "stream" /\ mpc = "listdir"
  /\ counters' = [c \in ClassSet |-> Cardinality(files[c])]
  /\ mpc' = "flask"
  /\ UNCHANGED <<prog, zipVars, camVars, display_frame, files, saves, keyVars, clock,
                 flask_thread, slotVars, heap, genVars, files0>>

StreamFlask ==
  /\ prog = "stream" /\ mpc = "flask"
  /\ flask_thread' = TRUE
  /\ mpc' = "read"
  /\ UNCHANGED <<prog, zipVars, camVars, display_frame, saveVars, keyVars, clock,
                 slotVars, heap, genVars, files0>>

\* ---------------------------------------------------------- stream: loop
StreamReadOk ==
  /\ prog = "stream" /\ mpc = "read"
  /\ nframes < MaxFrames
  /\ nframes' = nframes + 1
  /\ ret' = "True"
  /\ frame' = RawFrame(nframes + 1)
  /\ mpc' = After("read")
  /\ UNCHANGED <<prog, zipVars, cap, display_frame, saveVars, keyVars, clock,
                 flask_thread, slotVars, heap, genVars, files0>>

StreamReadFail ==
  /\ prog = "stream" /\ mpc = "read"
  /\ ret' = "False"
  /\ frame' = NoFrame
  /\ mpc' = After("read")
  /\ UNCHANGED <<prog, zipVars, cap, nframes, display_frame, saveVars, keyVars, clock,
                 flask_thread, slotVars, heap, genVars, files0>>

\* variant: a failed read leaves the loop
StreamCheckBreak ==
  /\ prog = "stream" /\ mpc = "check"
  /\ mpc' = IF ret # "True" \/ frame = NoFrame THEN "restore" ELSE After("check")
  /\ UNCHANGED <<prog, zipVars, camVars, display_frame, saveVars, keyVars, clock,
                 flask_thread, slotVars, heap, genVars, files0>>

StreamCheck ==
  /\ prog = "stream" /\ mpc = "check"
  /\ mpc' = IF ret # "True" \/ frame = NoFrame THEN "read" ELSE After("check")
  /\ UNCHANGED <<prog, zipVars, camVars, display_frame, saveVars, keyVars, clock,
                 flask_thread, slotVars, heap, genVars, files0>>

StreamCopy ==
  /\ prog = "stream" /\ mpc = "copy"
  /\ display_frame' = nframes
  /\ heap' = [heap EXCEPT ![nframes] = frame]
  /\ mpc' = After("copy")
  /\ UNCHANGED <<prog, zipVars, camVars, saveVars, keyVars, clock, flask_thread,
                 slotVars, genVars, files0>>

\* the cv2.putText calls: the instructions, then the count of each class
StreamOverlay ==
  /\ prog = "stream" /\ mpc = "overlay"
  /\ heap' = [heap EXCEPT ![display_frame] = PutText(PutText(@, 1), 2)]
  /\ mpc' = After("overlay")
  /\ UNCHANGED <<prog, zipVars, camVars, display_frame, saveVars, keyVars, clock,
                 flask_thread, slotVars, genVars, files0>>

StreamAcquire ==
  /\ prog = "stream" /\ mpc = "acquire"
  /\ frame_lock = Free
  /\ frame_lock' = Main
  /\ mpc' = After("acquire")
  /\ UNCHANGED <<prog, zipVars, camVars, display_frame, saveVars, keyVars, clock,
                 flask_thread, current_frame, published, lastpub, heap,
                 genVars, files0>>

\* variant: the slot keeps the frame it has (first wins)
StreamAssignIfEmpty ==
  /\ prog = "stream" /\ mpc = "assign"
  /\ current_frame' = IF current_frame = NoRef THEN display_frame ELSE current_frame
  /\ published' = published \cup {heap[display_frame]}
  /\ lastpub' = heap[display_frame]
  /\ frame_lock' = Free
  /\ mpc' = After("assign")
  /\ UNCHANGED <<prog, zipVars, camVars, display_frame, saveVars, keyVars, clock,
                 flask_thread, heap, genVars, files0>>

StreamAssign ==
  /\ prog = "stream" /\ mpc = "assign"
  /\ current_frame' = display_frame
  /\ published' = published \cup {heap[display_frame]}
  /\ lastpub' = heap[display_frame]
  /\ frame_lock' = Free
  /\ mpc' = After("assign")
  /\ UNCHANGED <<prog, zipVars, camVars, display_frame, saveVars, keyVars, clock,
                 flask_thread, heap, genVars, files0>>

\* the class the operator asked for, by the key pressed: '1' '2' '3'
RequestedClass(k) ==
  IF k = 49 THEN "middle" ELSE IF k = 50 THEN "peace" ELSE "woensel"

Requested(k) ==
  IF k \in {49, 50, 51}
  THEN [saves EXCEPT ![RequestedClass(k)] = @ + 1]
  ELSE saves

\* variant: idx = int(key)
StreamSelectedOffByOne(k) == CLASSES[((k - 48) % Len(CLASSES)) + 1]

\* idx = int(key) - 1 ; selected_class = CLASSES[idx]
StreamSelected(k) == CLASSES[((k - 48) - 1) + 1]

StreamKey ==
  /\ prog = "stream" /\ mpc = "key"
  /\ IF stdin = << >>
     THEN /\ mpc' = After("key")
          /\ UNCHANGED <<saveVars, stdin>>
     ELSE LET key == Head(stdin)
          IN /\ stdin' = Tail(stdin)
             /\ saves' = Requested(key)
             /\ IF Lower(key) = 113
                THEN /\ mpc' = "restore"
                     /\ UNCHANGED <<counters, files>>
                ELSE IF key \in {49, 50, 51}
                THEN /\ files' = [files EXCEPT ![StreamSelected(key)] =
                                                  @ \cup {FileName(clock)}]
                     /\ counters' = [counters EXCEPT ![StreamSelected(key)] = @ + 1]
                     /\ mpc' = After("key")
                ELSE /\ mpc' = After("key")
                     /\ UNCHANGED <<counters, files>>
  /\ UNCHANGED <<prog, zipVars, camVars, display_frame, npress, clock, flask_thread,
                 slotVars, heap, genVars, files0>>

StreamSleep ==
  /\ prog = "stream" /\ mpc = "sleep"
  /\ clock' = clock + 1
  /\ mpc' = After("sleep")
  /\ UNCHANGED <<prog, zipVars, camVars, display_frame, saveVars, keyVars,
                 flask_thread, slotVars, heap, genVars, files0>>

\* Ctrl-C while in the try block: except KeyboardInterrupt, then finally
StreamInterrupt ==
  /\ prog = "stream" /\ InLoop
  /\ mpc' = "except"
  /\ frame_lock' = IF frame_lock = Main THEN Free ELSE frame_lock
  /\ UNCHANGED <<prog, zipVars, camVars, display_frame, saveVars, keyVars, clock,
                 flask_thread, current_frame, published, lastpub, heap,
                 genVars, files0>>

\* finally: termios.tcsetattr restores the terminal
StreamRestore ==
  /\ prog = "stream" /\ mpc \in {"except", "restore"}
  /\ mpc' = "release"
  /\ UNCHANGED <<prog, zipVars, camVars, display_frame, saveVars, keyVars, clock,
                 flask_thread, slotVars, heap, genVars, files0>>

StreamRelease ==
  /\ prog = "stream" /\ mpc = "release"
  /\ cap' = "released"
  /\ mpc' = "done"
  /\ UNCHANGED <<prog, zipVars, ret, frame, nframes, display_frame, saveVars, keyVars,
                 clock, flask_thread, slotVars, heap, genVars, files0>>

\* the operator presses a key on the terminal
KeyPress ==
  /\ prog \in {"stream", "capture", "deploy"}
  /\ mpc \notin {"done", "exit"}
  /\ npress < MaxKeys
  /\ \E k \in Keys : stdin' = Append(stdin, k)
  /\ npress' = npress + 1
  /\ UNCHANGED <<prog, zipVars, mpc, camVars, display_frame, saveVars, clock,
                 flask_thread, slotVars, heap, genVars, files0>>

\* ------------------------------------------------------ generate_frames
\* the process is alive: threads and generators run
Alive == mpc \notin {"done", "exit"}

\* a viewer requests /video_feed: Response(generate_frames())
GenStart(g) ==
  /\ \/ prog = "stream" /\ flask_thread
     \/ prog = "capture"
  /\ Alive
  /\ genpc[g] = "off"
  /\ genpc' = [genpc EXCEPT ![g] = "lock"]
  /\ UNCHANGED <<prog, zipVars, mpc, camVars, display_frame, saveVars, keyVars, clock,
                 flask_thread, slotVars, heap, gidx, gframe, gref, label, files0>>

\* with frame_lock:
GenAcquire(g) ==
  /\ Alive
  /\ genpc[g] = "lock"
  /\ frame_lock = Free
  /\ frame_lock' = g
  /\ genpc' = [genpc EXCEPT ![g] = "test"]
  /\ UNCHANGED <<prog, zipVars, mpc, camVars, display_frame, saveVars, keyVars, clock,
                 flask_thread, current_frame, published, lastpub, heap, gidx,
                 gframe, gref, label, files0>>

\* frame = current_frame.copy() begins: the array is loaded, a new one allocated
GenBeginCopy(g) ==
  /\ genpc' = [genpc EXCEPT ![g] = "copy"]
  /\ gref' = [gref EXCEPT ![g] = current_frame]
  /\ gidx' = [gidx EXCEPT ![g] = 1]
  /\ gframe' = [gframe EXCEPT ![g] = NoFrame]
  /\ UNCHANGED slotVars

\* variant: with no frame published yet, a blank frame is served
GenBlankFrame(g) ==
  /\ genpc' = [genpc EXCEPT ![g] = "encode"]
  /\ gframe' = [gframe EXCEPT ![g] = RawFrame(0)]
  /\ frame_lock' = Free
  /\ UNCHANGED <<current_frame, published, lastpub, gidx, gref>>

\* stream: if current_frame is None: time.sleep(0.1), inside the with block
StreamGenNotReady(g) ==
  /\ genpc' = [genpc EXCEPT ![g] = "sleep"]
  /\ UNCHANGED <<slotVars, gidx, gframe, gref>>

StreamGenTest(g) ==
  /\ prog = "stream" /\ Alive
  /\ genpc[g] = "test"
  /\ IF current_frame = NoRef THEN StreamGenNotReady(g) ELSE GenBeginCopy(g)
  /\ UNCHANGED <<prog, zipVars, mpc, camVars, display_frame, saveVars, keyVars, clock,
                 flask_thread, heap, label, files0>>

\* variant: the poll loops inside the with block, the lock still held
StreamGenWakeHoldingLock(g) ==
  /\ prog = "stream" /\ Alive
  /\ genpc[g] = "sleep"
  /\ genpc' = [genpc EXCEPT ![g] = "test"]
  /\ UNCHANGED <<prog, zipVars, mpc, camVars, display_frame, saveVars, keyVars, clock,
                 flask_thread, slotVars, heap, gidx, gframe, gref, label, files0>>

\* stream: the sleep ends; continue leaves the with block and releases the lock
StreamGenWake(g) ==
  /\ prog = "stream" /\ Alive
  /\ genpc[g] = "sleep"
  /\ frame_lock' = Free
  /\ genpc' = [genpc EXCEPT ![g] = "lock"]
  /\ UNCHANGED <<prog, zipVars, mpc, camVars, display_frame, saveVars, keyVars, clock,
                 flask_thread, current_frame, published, lastpub, heap, gidx,
                 gframe, gref, label, files0>>

\* capture: if current_frame is None: continue, which releases the lock
CaptureGenTest(g) ==
  /\ prog = "capture" /\ Alive
  /\ genpc[g] = "test"
  /\ IF current_frame = NoRef
     THEN /\ genpc' = [genpc EXCEPT ![g] = "lock"]
          /\ frame_lock' = Free
          /\ UNCHANGED <<current_frame, published, lastpub, gidx, gframe, gref>>
     ELSE GenBeginCopy(g)
  /\ UNCHANGED <<prog, zipVars, mpc, camVars, display_frame, saveVars, keyVars, clock,
                 flask_thread, heap, label, files0>>

\* copy() copies the array pixel by pixel
GenCopyPixel(g) ==
  /\ Alive
  /\ genpc[g] = "copy"
  /\ gidx[g] <= NPix
  /\ gframe' = [gframe EXCEPT ![g] = Append(@, heap[gref[g]][gidx[g]])]
  /\ gidx' = [gidx EXCEPT ![g] = @ + 1]
  /\ UNCHANGED <<prog, zipVars, mpc, camVars, display_frame, saveVars, keyVars, clock,
                 flask_thread, slotVars, heap, genpc, gref, label, files0>>

\* variant: the read takes the frame out of the slot
GenReleaseAndClear(g) ==
  /\ Alive
  /\ genpc[g] = "copy"
  /\ gidx[g] > NPix
  /\ frame_lock' = Free
  /\ current_frame' = NoRef
  /\ genpc' = [genpc EXCEPT ![g] = "encode"]
  /\ gidx' = [gidx EXCEPT ![g] = 0]
  /\ gref' = [gref EXCEPT ![g] = NoRef]
  /\ UNCHANGED <<prog, zipVars, mpc, camVars, display_frame, saveVars, keyVars, clock,
                 flask_thread, published, lastpub, heap, gframe, label, files0>>

\* the copy is complete; the with block ends and releases the lock
GenRelease(g) ==
  /\ Alive
  /\ genpc[g] = "copy"
  /\ gidx[g] > NPix
  /\ frame_lock' = Free
  /\ genpc' = [genpc EXCEPT ![g] = "encode"]
  /\ gidx' = [gidx EXCEPT ![g] = 0]
  /\ gref' = [gref EXCEPT ![g] = NoRef]
  /\ UNCHANGED <<prog, zipVars, mpc, camVars, display_frame, saveVars, keyVars, clock,
                 flask_thread, current_frame, published, lastpub, heap, gframe,
                 label, files0>>

\* ret, buffer = cv2.imencode(...) succeeds: yield the part
GenEncodeOk(g) ==
  /\ Alive
  /\ genpc[g] = "encode"
  /\ genpc' = [genpc EXCEPT ![g] = "yield"]
  /\ UNCHANGED <<prog, zipVars, mpc, camVars, display_frame, saveVars, keyVars, clock,
                 flask_thread, slotVars, heap, gidx, gframe, gref, label, files0>>

\* if not ret: continue
GenEncodeFail(g) ==
  /\ Alive
  /\ genpc[g] = "encode"
  /\ genpc' = [genpc EXCEPT ![g] = "lock"]
  /\ gframe' = [gframe EXCEPT ![g] = NoFrame]
  /\ UNCHANGED <<prog, zipVars, mpc, camVars, display_frame, saveVars, keyVars, clock,
                 flask_thread, slotVars, heap, gidx, gref, label, files0>>

\* the server asks the generator for its next part
GenResume(g) ==
  /\ Alive
  /\ genpc[g] = "yield"
  /\ genpc' = [genpc EXCEPT ![g] = "lock"]
  /\ gframe' = [gframe EXCEPT ![g] = NoFrame]
  /\ UNCHANGED <<prog, zipVars, mpc, camVars, display_frame, saveVars, keyVars, clock,
                 flask_thread, slotVars, heap, gidx, gref, label, files0>>

\* the viewer disconnects: the generator is closed at its yield
GenClose(g) ==
  /\ Alive
  /\ genpc[g] = "yield"
  /\ genpc' = [genpc EXCEPT ![g] = "off"]
  /\ gframe' = [gframe EXCEPT ![g] = NoFrame]
  /\ UNCHANGED <<prog, zipVars, mpc, camVars, display_frame, saveVars, keyVars, clock,
                 flask_thread, slotVars, heap, gidx, gref, label, files0>>

\* ------------------------------------------- capture_jetson_images: main
CaptureMkdirs ==
  /\ prog = "capture" /\ mpc = "mkdirs"
  /\ mpc' = "open"
  /\ UNCHANGED <<prog, zipVars, camVars, display_frame, saveVars, keyVars, clock,
                 flask_thread, slotVars, heap, genVars, files0>>

CaptureOpen ==
  /\ prog = "capture" /\ mpc = "open"
  /\ \E ok \in BOOLEAN :
       /\ cap' = IF ok THEN "open" ELSE "failed"
       /\ mpc' = IF ok THEN "listdir" ELSE "exit"
  /\ UNCHANGED <<prog, zipVars, ret, frame, nframes, display_frame, saveVars, keyVars,
                 clock, flask_thread, slotVars, heap, genVars, files0>>

CaptureListdir ==
  /\ prog = "capture" /\ mpc = "listdir"
  /\ counters' = [c \in ClassSet |-> Cardinality(files[c])]
  /\ mpc' = "read"
  /\ UNCHANGED <<prog, zipVars, camVars, display_frame, files, saves, keyVars, clock,
                 flask_thread, slotVars, heap, genVars, files0>>

CaptureReadOk ==
  /\ prog = "capture" /\ mpc = "read"
  /\ nframes < MaxFrames
  /\ nframes' = nframes + 1
  /\ ret' = "True"
  /\ frame' = RawFrame(nframes + 1)
  /\ mpc' = "check"
  /\ UNCHANGED <<prog, zipVars, cap, display_frame, saveVars, keyVars, clock,
                 flask_thread, slotVars, heap, genVars, files0>>

CaptureReadFail ==
  /\ prog = "capture" /\ mpc = "read"
  /\ ret' = "False"
  /\ frame' = NoFrame
  /\ mpc' = "check"
  /\ UNCHANGED <<prog, zipVars, cap, nframes, display_frame, saveVars, keyVars, clock,
                 flask_thread, slotVars, heap, genVars, files0>>

CaptureCheck ==
  /\ prog = "capture" /\ mpc = "check"
  /\ mpc' = IF ret # "True" \/ frame = NoFrame THEN "read" ELSE "copy"
  /\ UNCHANGED <<prog, zipVars, camVars, display_frame, saveVars, keyVars, clock,
                 flask_thread, slotVars, heap, genVars, files0>>

\* display_frame = frame.copy() and the putText calls, then cv2.imshow
CaptureOverlay ==
  /\ prog = "capture" /\ mpc = "copy"
  /\ display_frame' = nframes
  /\ heap' = [heap EXCEPT ![nframes] = PutText(PutText(frame, 1), 2)]
  /\ mpc' = "waitkey"
  /\ UNCHANGED <<prog, zipVars, camVars, saveVars, keyVars, clock, flask_thread,
                 slotVars, genVars, files0>>

\* cv2.waitKey(1) & 0xFF : the key pressed, or -1 when none was
WaitKey(q) == IF q = << >> THEN (-1) % 256 ELSE Head(q) % 256

\* key == ord('1') -> CLASSES[0], ord('2') -> CLASSES[1], ord('3') -> CLASSES[2]
CaptureSelected(k) ==
  IF k = 49 THEN CLASSES[1] ELSE IF k = 50 THEN CLASSES[2] ELSE CLASSES[3]

CaptureWaitKey ==
  /\ prog = "capture" /\ mpc = "waitkey"
  /\ stdin' = IF stdin = << >> THEN stdin ELSE Tail(stdin)
  /\ clock' = clock + 1
  /\ LET key == WaitKey(stdin)
     IN /\ saves' = Requested(key)
        /\ IF key = 113
           THEN /\ mpc' = "release"
                /\ UNCHANGED <<counters, files>>
           ELSE IF key \in {49, 50, 51}
           THEN /\ files' = [files EXCEPT ![CaptureSelected(key)] =
                                             @ \cup {FileName(clock')}]
                /\ counters' = [counters EXCEPT ![CaptureSelected(key)] = @ + 1]
                /\ mpc' = "read"
           ELSE /\ mpc' = "read"
                /\ UNCHANGED <<counters, files>>
  /\ UNCHANGED <<prog, zipVars, camVars, display_frame, npress, flask_thread, slotVars,
                 heap, genVars, files0>>

CaptureRelease ==
  /\ prog = "capture" /\ mpc = "release"
  /\ cap' = "released"
  /\ mpc' = "done"
  /\ UNCHANGED <<prog, zipVars, ret, frame, nframes, display_frame, saveVars, keyVars,
                 clock, flask_thread, slotVars, heap, genVars, files0>>

\* ------------------------------------------------ jetson_deployment: main
\* tf.keras.models.load_model: on an exception, print and return
DeployLoad ==
  /\ prog = "deploy" /\ mpc = "load"
  /\ \E ok \in BOOLEAN : mpc' = IF ok THEN "open" ELSE "exit"
  /\ UNCHANGED <<prog, zipVars, camVars, display_frame, saveVars, keyVars, clock,
                 flask_thread, slotVars, heap, genVars, files0>>

\* the CSI camera through GStreamer, else the default camera, else return
DeployOpen ==
  /\ prog = "deploy" /\ mpc = "open"
  /\ \E csi \in BOOLEAN, usb \in BOOLEAN :
       /\ cap' = IF csi \/ usb THEN "open" ELSE "failed"
       /\ mpc' = IF csi \/ usb THEN "read" ELSE "exit"
  /\ UNCHANGED <<prog, zipVars, ret, frame, nframes, display_frame, saveVars, keyVars,
                 clock, flask_thread, slotVars, heap, genVars, files0>>

DeployReadOk ==
  /\ prog = "deploy" /\ mpc = "read"
  /\ nframes < MaxFrames
  /\ nframes' = nframes + 1
  /\ ret' = "True"
  /\ frame' = RawFrame(nframes + 1)
  /\ mpc' = "check"
  /\ UNCHANGED <<prog, zipVars, cap, display_frame, saveVars, keyVars, clock,
                 flask_thread, slotVars, heap, genVars, files0>>

DeployReadFail ==
  /\ prog = "deploy" /\ mpc = "read"
  /\ ret' = "False"
  /\ frame' = NoFrame
  /\ mpc' = "check"
  /\ UNCHANGED <<prog, zipVars, cap, nframes, display_frame, saveVars, keyVars, clock,
                 flask_thread, slotVars, heap, genVars, files0>>

\* if not ret: break
DeployCheck ==
  /\ prog = "deploy" /\ mpc = "check"
  /\ mpc' = IF ret # "True" THEN "release" ELSE "predict"
  /\ UNCHANGED <<prog, zipVars, camVars, display_frame, saveVars, keyVars, clock,
                 flask_thread, slotVars, heap, genVars, files0>>

\* resize, predict, argmax; the label is drawn on the frame and shown
DeployPredict ==
  /\ prog = "deploy" /\ mpc = "predict"
  /\ \E class_idx \in 1..Len(CLASSES) : label' = CLASSES[class_idx]
  /\ frame' = PutText(frame, 1)
  /\ mpc' = "waitkey"
  /\ UNCHANGED <<prog, zipVars, cap, ret, nframes, display_frame, saveVars, keyVars,
                 clock, flask_thread, slotVars, heap, genpc, gidx, gframe, gref,
                 files0>>

\* if cv2.waitKey(1) & 0xFF == ord('q'): break
DeployWaitKey ==
  /\ prog = "deploy" /\ mpc = "waitkey"
  /\ stdin' = IF stdin = << >> THEN stdin ELSE Tail(stdin)
  /\ mpc' = IF WaitKey(stdin) = 113 THEN "release" ELSE "read"
  /\ UNCHANGED <<prog, zipVars, camVars, display_frame, saveVars, npress, clock,
                 flask_thread, slotVars, heap, genVars, files0>>

DeployRelease ==
  /\ prog = "deploy" /\ mpc = "release"
  /\ cap' = "released"
  /\ mpc' = "done"
  /\ UNCHANGED <<prog, zipVars, ret, frame, nframes, display_frame, saveVars, keyVars,
                 clock, flask_thread, slotVars, heap, genVars, files0>>

\* ------------------------------------------------------- unzip_and_clean
\* file names, as the characters they are made of
NameAZip == <<"a", ".", "z", "i", "p">>
NameBZip == <<"b", ".", "Z", "I", "P">>
NameA    == <<"a">>
NameSub  == <<"s", "u", "b">>
NameTxt  == <<"n", ".", "t", "x", "t">>
NameMeta == <<"m", "e", "t", "a">>
NameData == <<"d", "a", "t", "a">>

\* str.lower()
LowerChar(c) ==
  CASE c = "Z" -> "z" [] c = "I" -> "i" [] c = "P" -> "p" [] OTHER -> c

LowerName(n) == [i \in 1..Len(n) |-> LowerChar(n[i])]

\* filename.lower().endswith('.zip')
IsZipName(n) ==
  Len(n) >= 4 /\ SubSeq(LowerName(n), Len(n) - 3, Len(n)) = <<".", "z", "i", "p">>

\* os.path.splitext(filename)[0]: cut at the last dot, unless only dots precede it
SplitextRoot(n) ==
  LET dots == {i \in 1..Len(n) : n[i] = "."}
  IN IF dots = {} THEN n
     ELSE LET d == CHOOSE i \in dots : \A j \in dots : j <= i
          IN IF \E i \in 1..(d - 1) : n[i] # "." THEN SubSeq(n, 1, d - 1) ELSE n

\* what a path of the tree holds: a directory, or a file that is an archive
\* ("empty", "plain", "withmeta") or is not one ("bad")
EmptyFs == [p \in {} |-> "dir"]

IsDir(f, p) == p \in DOMAIN f /\ f[p] = "dir"

\* the members of an archive, in the order extractall extracts them
Members(k) ==
  CASE k = "plain" -> << [path |-> <<NameData>>, kind |-> "file"] >>
    [] k = "withmeta" -> << [path |-> <<NameMeta>>, kind |-> "dir"],
                            [path |-> <<NameMeta, NameData>>, kind |-> "file"],
                            [path |-> <<NameData>>, kind |-> "file"] >>
    [] OTHER -> << >>

Prefixes(p) == {SubSeq(p, 1, i) : i \in 0..Len(p)}

Put(f, p, v) == [q \in DOMAIN f \cup {p} |-> IF q = p THEN v ELSE f[q]]

\* os.makedirs(upperdirs): fails when something on the way is no directory
MakeDirs(f, p) ==
  [q \in DOMAIN f \cup Prefixes(p) |-> IF q \in DOMAIN f THEN f[q] ELSE "dir"]

\* ZipFile._extract_member: the result, and whether it raised
ExtractMember(f, ep, m) ==
  LET target == ep \o m.path
      upper  == SubSeq(target, 1, Len(target) - 1)
  IN IF \E a \in Prefixes(upper) : a \in DOMAIN f /\ f[a] # "dir"
     THEN [fs |-> f, ok |-> FALSE]
     ELSE LET f1 == MakeDirs(f, upper)
          IN IF m.kind = "dir"
             THEN IF target \in DOMAIN f1 /\ f1[target] # "dir"
                  THEN [fs |-> f1, ok |-> FALSE]
                  ELSE [fs |-> Put(f1, target, "dir"), ok |-> TRUE]
             ELSE IF IsDir(f1, target)
                  THEN [fs |-> f1, ok |-> FALSE]
                  ELSE [fs |-> Put(f1, target, "bad"), ok |-> TRUE]

RECURSIVE ExtractAll(_, _, _)
\* zip_ref.extractall(extract_path): member after member, until one raises
ExtractAll(f, ep, ms) ==
  IF ms = << >> THEN [fs |-> f, ok |-> TRUE]
  ELSE LET r == ExtractMember(f, ep, Head(ms))
       IN IF r.ok THEN ExtractAll(r.fs, ep, Tail(ms)) ELSE r

\* shutil.rmtree(p) ; os.remove(p)
RmTree(f, p) ==
  [q \in {x \in DOMAIN f : ~(Len(x) >= Len(p) /\ SubSeq(x, 1, Len(p)) = p)} |-> f[q]]

Remove(f, p) == [q \in DOMAIN f \ {p} |-> f[q]]

\* if os.path.exists(meta_dir) and os.path.isdir(meta_dir): shutil.rmtree(meta_dir)
CleanMeta(f, ep) ==
  IF IsDir(f, ep \o <<NameMeta>>) THEN RmTree(f, ep \o <<NameMeta>>) ELSE f

\* where the input or output fails: nowhere, at member j of the extraction,
\* in rmtree, in os.remove
Faults(f, file_path) ==
  {[at |-> "none", j |-> 0], [at |-> "rmtree", j |-> 0], [at |-> "remove", j |-> 0]}
  \cup {[at |-> "extract", j |-> j] :
          j \in 1..(IF file_path \in DOMAIN f THEN Len(Members(f[file_path])) ELSE 0)}

\* the try block of the loop body: the tree it leaves and how it ended
TryUnzip(f, file_path, ep, fault) ==
  IF file_path \notin DOMAIN f \/ f[file_path] = "dir"
  THEN [fs |-> f, outcome |-> "error"]
  ELSE IF f[file_path] = "bad"
  THEN [fs |-> f, outcome |-> "badzip"]
  ELSE LET ms == Members(f[file_path])
           n  == IF fault.at = "extract" THEN fault.j - 1 ELSE Len(ms)
           r  == ExtractAll(f, ep, SubSeq(ms, 1, n))
       IN IF ~r.ok \/ fault.at = "extract"
          THEN [fs |-> r.fs, outcome |-> "error"]
          ELSE IF fault.at = "rmtree" /\ IsDir(r.fs, ep \o <<NameMeta>>)
          THEN [fs |-> r.fs, outcome |-> "error"]
          ELSE IF fault.at = "remove" \/ file_path \notin DOMAIN CleanMeta(r.fs, ep)
                  \/ IsDir(CleanMeta(r.fs, ep), file_path)
          THEN [fs |-> CleanMeta(r.fs, ep), outcome |-> "error"]
          ELSE [fs |-> Remove(CleanMeta(r.fs, ep), file_path), outcome |-> "ok"]

\* the entries of a directory
Entries(f, d) == {p \in DOMAIN f : Len(p) = Len(d) + 1 /\ SubSeq(p, 1, Len(d)) = d}

\* the orders in which scandir may list a set of names
Orders(S) == {q \in [1..Cardinality(S) -> S] : \A i, j \in DOMAIN q : q[i] = q[j] => i = j}

\* if not os.path.exists(target_directory): print and return ; else os.walk begins
UnzipStart ==
  /\ prog = "unzip" /\ mpc = "start"
  /\ IF << >> \in DOMAIN fs
     THEN mpc' = "walk" /\ wstack' = << << >> >>
     ELSE mpc' = "done" /\ wstack' = << >>
  /\ UNCHANGED <<prog, camToolVars, fs, wtop, wdirs, wfiles, listed, attempted, last>>

\* os.walk yields the next directory with its dirs and files, or ends
UnzipWalk ==
  /\ prog = "unzip" /\ mpc = "walk"
  /\ IF wstack = << >>
     THEN /\ mpc' = "done"
          /\ UNCHANGED <<wstack, wtop, wdirs, wfiles, listed>>
     ELSE IF ~IsDir(fs, Head(wstack))
     THEN /\ mpc' = "walk"
          /\ wstack' = Tail(wstack)
          /\ UNCHANGED <<wtop, wdirs, wfiles, listed>>
     ELSE LET top == Head(wstack)
              ds  == {p[Len(p)] : p \in {e \in Entries(fs, top) : fs[e] = "dir"}}
              nd  == {p[Len(p)] : p \in {e \in Entries(fs, top) : fs[e] # "dir"}}
          IN /\ wtop' = top
             /\ wstack' = Tail(wstack)
             /\ wdirs' \in Orders(ds)
             /\ wfiles' \in Orders(nd)
             /\ listed' = listed \cup {top \o <<n>> : n \in {x \in nd : IsZipName(x)}}
             /\ mpc' = "files"
  /\ UNCHANGED <<prog, camToolVars, fs, attempted, last>>

\* variant: the exception leaves unzip_and_clean
AfterErrorAbort == "done"

\* except zipfile.BadZipFile / except Exception: print, and the loop goes on
AfterError == "files"

\* one pass of "for filename in files", or its end: the walk descends into dirs
UnzipFile ==
  /\ prog = "unzip" /\ mpc = "files"
  /\ IF wfiles = << >>
     THEN /\ mpc' = "walk"
          /\ wstack' = [i \in 1..Len(wdirs) |-> wtop \o <<wdirs[i]>>] \o wstack
          /\ UNCHANGED <<fs, wfiles, attempted, last>>
     ELSE LET filename == Head(wfiles)
              file_path == wtop \o <<filename>>
              extract_path == wtop \o <<SplitextRoot(filename)>>
          IN /\ wfiles' = Tail(wfiles)
             /\ UNCHANGED wstack
             /\ IF IsZipName(filename)
                THEN \E fault \in Faults(fs, file_path) :
                       LET r == TryUnzip(fs, file_path, extract_path, fault)
                       IN /\ fs' = r.fs
                          /\ attempted' = attempted \cup {file_path}
                          /\ last' = [path |-> file_path, ep |-> extract_path,
                                      kind |-> IF file_path \in DOMAIN fs
                                               THEN fs[file_path] ELSE "gone",
                                      outcome |-> r.outcome]
                          /\ mpc' = IF r.outcome = "ok" THEN "files" ELSE AfterError
                ELSE /\ mpc' = "files"
                     /\ UNCHANGED <<fs, attempted, last>>
  /\ UNCHANGED <<prog, camToolVars, wtop, wdirs, listed>>

UnzipMain == UnzipStart \/ UnzipWalk \/ UnzipFile

\* the trees unzip_and_clean is started on
Trees ==
  {EmptyFs} \cup
  { [p \in {<< >>, <<NameTxt>>, <<NameSub>>}
          \cup (IF a = "none" THEN {} ELSE {<<NameAZip>>})
          \cup (IF b = "none" THEN {} ELSE {<<NameBZip>>})
          \cup (IF c = "none" THEN {} ELSE {<<NameSub, NameAZip>>})
          \cup (IF d = "none" THEN {} ELSE {<<NameA>>})
          \cup (IF d = "dirmeta" THEN {<<NameA, NameMeta>>} ELSE {})
      |-> CASE p = <<NameAZip>> -> a
            [] p = <<NameBZip>> -> b
            [] p = <<NameSub, NameAZip>> -> c
            [] p = <<NameA>> -> IF d = "file" THEN "bad" ELSE "dir"
            [] p = <<NameTxt>> -> "bad"
            [] OTHER -> "dir"] :
      a \in {"none", "bad", "plain", "withmeta"},
      b \in {"none", "bad", "withmeta"},
      c \in {"none", "empty", "withmeta"},
      d \in {"none", "dirmeta", "file"} }

NoLast == [path |-> << >>, ep |-> << >>, kind |-> "none", outcome |-> "none"]

\* ------------------------------------------------------------ the system
\* the class directories at startup: a new dataset, or one of an earlier
\* session, whose images carry timestamps of the past
InitialDirs ==
  {[c \in ClassSet |-> {}],
   [c \in ClassSet |-> {-n : n \in 1..(IF c = "peace" THEN MaxOld ELSE 0)}]}

Init ==
  /\ prog \in {"stream", "capture", "deploy", "unzip"}
  /\ mpc = CASE prog = "deploy" -> "load" [] prog = "unzip" -> "start"
             [] OTHER -> "mkdirs"
  /\ cap = "closed"
  /\ ret = "None"
  /\ frame = NoFrame
  /\ display_frame = NoRef
  /\ counters = [c \in ClassSet |-> 0]
  /\ files \in InitialDirs
  /\ (prog \in {"deploy", "unzip"} => files = [c \in ClassSet |-> {}])
  /\ fs \in Trees
  /\ (prog # "unzip" => fs = EmptyFs)
  /\ wstack = << >>
  /\ wtop = << >>
  /\ wdirs = << >>
  /\ wfiles = << >>
  /\ listed = {}
  /\ attempted = {}
  /\ last = NoLast
  /\ files0 = files
  /\ stdin = << >>
  /\ clock = 1
  /\ nframes = 0
  /\ flask_thread = FALSE
  /\ frame_lock = Free
  /\ current_frame = NoRef
  /\ heap = [r \in 1..MaxFrames |-> NoFrame]
  /\ genpc = [g \in Gens |-> "off"]
  /\ gidx = [g \in Gens |-> 0]
  /\ gframe = [g \in Gens |-> NoFrame]
  /\ gref = [g \in Gens |-> NoRef]
  /\ label = ""
  /\ npress = 0
  /\ published = {}
  /\ lastpub = NoFrame
  /\ saves = [c \in ClassSet |-> 0]

StreamMain ==
  \/ StreamMkdirs \/ StreamOpen \/ StreamListdir \/ StreamFlask
  \/ StreamReadOk \/ StreamReadFail \/ StreamCheck \/ StreamCopy
  \/ StreamOverlay \/ StreamAcquire \/ StreamAssign
  \/ StreamKey \/ StreamSleep \/ StreamRestore \/ StreamRelease

CaptureMain ==
  \/ CaptureMkdirs \/ CaptureOpen \/ CaptureListdir
  \/ CaptureReadOk \/ CaptureReadFail \/ CaptureCheck \/ CaptureOverlay
  \/ CaptureWaitKey \/ CaptureRelease

DeployMain ==
  \/ DeployLoad \/ DeployOpen \/ DeployReadOk \/ DeployReadFail
  \/ DeployCheck \/ DeployPredict \/ DeployWaitKey \/ DeployRelease

GenStep(g) ==
  \/ GenAcquire(g) \/ StreamGenTest(g) \/ StreamGenWake(g) \/ CaptureGenTest(g)
  \/ GenCopyPixel(g) \/ GenRelease(g) \/ GenEncodeOk(g) \/ GenEncodeFail(g)
  \/ GenResume(g)

Next ==
  \/ StreamMain \/ StreamInterrupt
  \/ CaptureMain
  \/ DeployMain
  \/ UnzipMain
  \/ KeyPress
  \/ \E g \in Gens : GenStart(g) \/ GenStep(g) \/ GenClose(g)

Spec == Init /\ [][Next]_vars

\* the two capture tools alone, where every thread that can take a step
\* eventually takes one
CaptureToolsInit == Init /\ prog \in {"stream", "capture"}

CaptureToolsNext ==
  \/ StreamMain \/ StreamInterrupt
  \/ CaptureMain
  \/ KeyPress
  \/ \E g \in Gens : GenStart(g) \/ GenStep(g) \/ GenClose(g)

FairSpec ==
  /\ CaptureToolsInit /\ [][CaptureToolsNext]_vars
  /\ WF_vars(StreamMain \/ CaptureMain)
  /\ \A g \in Gens : WF_vars(GenStep(g))

\* and the capture loop is never passed over for frame_lock for ever
QuitFairSpec == FairSpec /\ SF_vars(StreamAcquire)

\* ------------------------------------------------------------ properties
Complete(g) == genpc[g] = "copy" /\ gidx[g] > NPix

Quitting == mpc \in {"except", "restore", "release", "done"}

\* C1: no tearing. Whatever a generator has copied so far is a prefix of one
\* published frame, every complete copy is one published frame, and the frame
\* in the slot still has the pixels it was published with.
NoTearing ==
  /\ \A g \in Gens :
       /\ genpc[g] \in {"encode", "yield"} => gframe[g] \in published
       /\ genpc[g] = "copy" =>
            \E f \in published : \A i \in 1..Len(gframe[g]) : gframe[g][i] = f[i]
  /\ current_frame # NoRef => heap[current_frame] = lastpub

NoTearingWitness ==
  \E g \in Gens :
    /\ genpc[g] = "copy" /\ gidx[g] > 1 /\ gidx[g] <= NPix
    /\ mpc = "acquire" /\ nframes >= 2

\* C2: latest wins. A copy completed under the lock is the frame of the last
\* publish, which is what the slot holds.
LatestWins ==
  \A g \in Gens :
    Complete(g) => gframe[g] = lastpub /\ heap[current_frame] = lastpub

LatestWinsWitness ==
  \E g \in Gens :
    Complete(g) /\ Cardinality(published) >= 2 /\ gframe[g] = lastpub

\* C3: before the first publish no generator holds, encodes or yields a frame.
NotReadyBeforePublish ==
  published = {} =>
    \A g \in Gens :
      genpc[g] \notin {"copy", "encode", "yield"} /\ gframe[g] = NoFrame

NotReadyWitness ==
  \E g \in Gens : genpc[g] = "sleep" /\ published = {} /\ current_frame = NoRef

\* C4: a step of a generator leaves the slot and the frame in it as they were,
\* a slot that holds a frame never becomes empty again, and what a generator
\* read is what the slot still holds while it has the lock.
ReadLeavesSlot ==
  /\ [][/\ current_frame # NoRef => current_frame' # NoRef
        /\ (genpc' # genpc \/ gidx' # gidx) =>
             current_frame' = current_frame /\ heap' = heap]_vars
  /\ [](\A g \in Gens : Complete(g) => gframe[g] = heap[current_frame])

ReadLeavesSlotWitness ==
  \E g \in Gens :
    /\ genpc[g] = "yield" /\ current_frame # NoRef
    /\ gframe[g] = heap[current_frame]

\* C5: frame_lock is held only for the reference swap (main) or for the test
\* and the copy (a generator), never across a sleep.
LockOnlyForSwapOrCopy ==
  /\ frame_lock = Main => mpc = "assign"
  /\ \A g \in Gens : frame_lock = g => genpc[g] \in {"test", "copy"}

\* C6: each counter is the number of files found at startup plus the saves
\* requested for its class, and each class directory holds the files it had
\* plus one new file per save.
Counted == prog \in {"stream", "capture"} /\ mpc \notin {"mkdirs", "open", "listdir", "exit"}

FailedReadStep == mpc = "check" /\ ret = "False" /\ mpc' \notin {"check", "except"}

ReadFailureContinues ==
  [][FailedReadStep =>
       /\ mpc' = "read"
       /\ UNCHANGED <<current_frame, published, files, counters, label>>]_vars

\* C7 amended: publishes, saves and classifies nothing; the capture tools
\* read again, the inference script leaves the loop for cap.release().
ReadFailureSkipsOrEnds ==
  [][FailedReadStep =>
       /\ UNCHANGED <<current_frame, published, files, counters, label>>
       /\ prog \in {"stream", "capture"} => mpc' = "read"
       /\ prog = "deploy" => mpc' = "release"]_vars

ReadFailureWitness ==
  prog = "stream" /\ ret = "False" /\ mpc = "read" /\ nframes >= 1

\* C8: once 'q' waits in the input of a running capture loop, the loop ends
\* and the camera is released.
QuitPending == \E i \in 1..Len(stdin) : stdin[i] = 113

QuitTerminates ==
  [](prog \in {"stream", "capture"} /\ cap = "open" /\ QuitPending
       => <>(cap = "released"))

\* C10 as stated: with a camera that delivers and frames that encode, weak
\* fairness of the threads is enough for the loop to get the lock and publish
\* and for every generator to yield.
CameraDelivers ==
  /\ SF_vars(StreamReadOk)
  /\ \A g \in Gens : SF_vars(GenEncodeOk(g))

LockFair ==
  /\ SF_vars(StreamAcquire)
  /\ \A g \in Gens : SF_vars(GenAcquire(g))

Progress ==
  /\ (prog = "stream" /\ mpc = "acquire") ~> (mpc # "acquire")
  /\ (prog = "stream" /\ flask_thread /\ published = {})
       ~> (published # {} \/ Quitting)
  /\ \A g \in Gens :
       (prog = "stream" /\ genpc[g] = "lock") ~> (genpc[g] = "yield" \/ Quitting)

UnzipOutcome ==
  prog = "unzip" =>
    /\ last.outcome = "ok" =>
         /\ last.path \notin DOMAIN fs
         /\ last.kind \in {"empty", "plain", "withmeta"}
         /\ \A i \in 1..Len(Members(last.kind)) :
              LET m == Members(last.kind)[i]
              IN m.path[1] # NameMeta =>
                   /\ last.ep \o m.path \in DOMAIN fs
                   /\ (fs[last.ep \o m.path] = "dir") = (m.kind = "dir")
         /\ ~IsDir(fs, last.ep \o <<NameMeta>>)
    /\ last.outcome \in {"badzip", "error"} =>
         /\ last.kind # "gone" => last.path \in DOMAIN fs /\ fs[last.path] = last.kind
         /\ mpc \in {"files", "walk", "done"}
    /\ last.outcome = "badzip" => last.kind = "bad"
    /\ mpc = "done" => listed \subseteq attempted

UnzipWitness ==
  /\ prog = "unzip" /\ mpc = "done"
  /\ <<NameAZip>> \in DOMAIN fs /\ fs[<<NameAZip>>] = "bad"
  /\ <<NameBZip>> \notin DOMAIN fs
  /\ <<NameBZip>> \in attempted
  /\ <<<<"b">>, NameData>> \in DOMAIN fs
  /\ ~IsDir(fs, <<<<"b">>, NameMeta>>)
  /\ last.outcome = "ok"

====
